---- MODULE Spec2Model ----
(***************************************************************************)
(* FITCInferenceMethod (shogun/machine/gp/FITCInferenceMethod.cpp): the    *)
(* caching state machine of the FITC inference engine and the numerical    *)
(* status of its factorization pipeline.                                   *)
(*                                                                         *)
(* Shapes: one inducing point (m = 1) and two training points (n = 2), so  *)
(* that a Cholesky factor is a single square root and every sign the code  *)
(* depends on is decided by exact integer arithmetic.  The hyperparameters *)
(* enter through the values the code computes from them:                   *)
(*   scale = exp(2*m_log_scale), noise = exp(m_log_ind_noise),             *)
(*   sig2  = sq(sigma).                                                    *)
(* Every cached quantity carries gen, the hyperparameter hash for which    *)
(* its content is the right one (0: unset, or computed from inputs of      *)
(* another hash).                                                          *)
(***************************************************************************)
EXTENDS Integers, Sequences, FiniteSets, TLC

VARIABLES hp, self, ret, pc, param, acc_updates

vars == <<hp, self, ret, pc, param, acc_updates>>

\* saturation value of the call counters
MaxCount == 2

Min(a, b) == IF a < b THEN a ELSE b

(***************************************************************************)
(* Inputs.                                                                 *)
(***************************************************************************)
Thetas == {1, 2}
Scales == {1, 2}
Noises == {1}
Sig2s == {1}
Hyper == [theta : Thetas, scale : Scales, noise : Noises, sig2 : Sig2s]

ParamNames == {"log_sigma", "wrong_name"}
Handles == {"null", "fitc", "other"}

\* covariance provider: under theta 1 the residual variance is positive at
\* scale 1 and negative at scale 2 (the cross covariance outgrows the
\* diagonals); theta 2 has a negative inducing variance
Kuu(theta) == IF theta = 1 THEN 1 ELSE -1

Ktru(theta) == IF theta = 1 THEN <<2, 1>> ELSE <<1, 0>>

KtrtrDiag(theta) == IF theta = 1 THEN <<2, 2>> ELSE <<1, 1>>

\* hash over all hyperparameters; never 0
Hash(h) == ((h.theta * 4 + h.scale) * 4 + h.noise) * 4 + h.sig2

\* generation of a quantity computed at hash g from cached inputs of
\* generations gens
Stamp(g, gens) == IF gens \subseteq {g} THEN g ELSE 0

RECURSIVE Prod(_)
Prod(s) == IF s = <<>> THEN 1 ELSE Head(s) * Prod(Tail(s))

RECURSIVE SumTerms(_, _, _)
SumTerms(a, num, P) ==
  IF a = <<>> THEN 0
  ELSE Head(a) * (P \div Head(num)) + SumTerms(Tail(a), Tail(num), P)

(***************************************************************************)
(* Eigen::LLT of a 1x1 matrix: x = a(0,0); if (x <= 0) the decomposition   *)
(* stops with info() = NumericalIssue and the matrix is left as it was,    *)
(* else a(0,0) = sqrt(x).  sq is the square of the entry matrixU() gives.  *)
(***************************************************************************)
LLT(A) == [ok |-> A > 0, sq |-> IF A > 0 THEN A ELSE A * A]

\* IEEE class of 1/dg where dg = num/den (den = 0: V was divided by zero)
TClass(num, den, a) ==
  IF den = 0 THEN (IF a = 0 THEN "nan" ELSE "negzero")
  ELSE IF num > 0 THEN "pos"
  ELSE IF num = 0 THEN "posinf"
  ELSE "neg"

\* class of V*diag(t)*V' + I, with V[i]^2 = a[i]/den and t[i] = den/num[i]
LuArg(a, num, den) ==
  IF den = 0 THEN "nan"
  ELSE IF \E i \in DOMAIN num : num[i] = 0 /\ a[i] = 0 THEN "nan"
  ELSE IF \E i \in DOMAIN num : num[i] = 0 THEN "posinf"
  ELSE LET P == Prod(num)
           S == P + SumTerms(a, num, P)
       IN IF S * P > 0 THEN "pos" ELSE "nonpos"

Unset == [gen |-> 0]

\* the object after construction
NewEngine ==
  [m_hash |-> 0, m_gradient_update |-> FALSE,
   m_kuu |-> [gen |-> 0, val |-> 0],
   m_ktru |-> [gen |-> 0, val |-> <<>>],
   m_ktrtr_diag |-> [gen |-> 0, val |-> <<>>],
   m_chol_uu |-> [gen |-> 0, ok |-> FALSE, sq |-> 0],
   m_V |-> [gen |-> 0, a |-> <<>>, den |-> 0],
   m_t |-> [gen |-> 0, num |-> <<>>, den |-> 0, a |-> <<>>],
   m_chol_utr |-> [gen |-> 0, ok |-> FALSE, cls |-> "nan"],
   m_r |-> Unset, m_be |-> Unset, m_L |-> Unset, m_alpha |-> Unset,
   m_al |-> Unset, m_B |-> Unset, m_w |-> Unset, m_Rvdd |-> Unset,
   m_mu |-> Unset, m_Sigma |-> Unset,
   upd |-> 0, drv |-> 0]

\* the object without the call counters
Engine(e) == [e EXCEPT !.upd = 0, !.drv = 0]

\* a public call begins: the call counters restart
Enter(e) == [e EXCEPT !.upd = 0, !.drv = 0]

(***************************************************************************)
(* Base class (Inference, SGObject).                                       *)
(***************************************************************************)
parameter_hash_changed(e, h) == e.m_hash # Hash(h)

update_parameter_hash(e, h) == [e EXCEPT !.m_hash = Hash(h)]

\* Inference::update(): the train kernel blocks are taken from the
\* covariance provider
Inference_update(e, h) ==
  [e EXCEPT !.m_kuu = [gen |-> Hash(h), val |-> Kuu(h.theta)],
            !.m_ktru = [gen |-> Hash(h), val |-> Ktru(h.theta)],
            !.m_ktrtr_diag = [gen |-> Hash(h), val |-> KtrtrDiag(h.theta)]]

(***************************************************************************)
(* FITCInferenceMethod.  The statements of a function are composed as      *)
(* operators on the object, each reading what the statements before it     *)
(* have left in the object.                                                *)
(***************************************************************************)
\* Luu = chol(Kuu*scale + noise*I), stored in m_chol_uu
chol_uu_stage(e, h) ==
  [e EXCEPT !.m_chol_uu =
     [gen |-> Stamp(Hash(h), {e.m_kuu.gen}),
      ok |-> LLT(e.m_kuu.val * h.scale + h.noise).ok,
      sq |-> LLT(e.m_kuu.val * h.scale + h.noise).sq]]

\* V = Luu' \ (Ktru*scale): V[i]^2 = a[i]/den
V_stage(e, h) ==
  [e EXCEPT !.m_V =
     [gen |-> Stamp(Hash(h), {e.m_chol_uu.gen, e.m_ktru.gen}),
      a |-> [i \in DOMAIN e.m_ktru.val |->
               (e.m_ktru.val[i] * h.scale) * (e.m_ktru.val[i] * h.scale)],
      den |-> e.m_chol_uu.sq]]

\* t = 1 ./ (diag(K)*scale + sigma^2 - colsum(V.*V)): t[i] = den/num[i]
t_stage(e, h) ==
  [e EXCEPT !.m_t =
     [gen |-> Stamp(Hash(h), {e.m_ktrtr_diag.gen, e.m_V.gen}),
      num |-> [i \in DOMAIN e.m_ktrtr_diag.val |->
                 (e.m_ktrtr_diag.val[i] * h.scale + h.sig2) * e.m_V.den - e.m_V.a[i]],
      den |-> e.m_V.den,
      a |-> e.m_V.a]]

\* Lu = chol(V*diag(t)*V' + I), stored in m_chol_utr
chol_utr_stage(e, h) ==
  [e EXCEPT !.m_chol_utr =
     [gen |-> Stamp(Hash(h), {e.m_V.gen, e.m_t.gen, e.m_kuu.gen}),
      ok |-> LuArg(e.m_V.a, e.m_t.num, e.m_t.den) # "nonpos",
      cls |-> LuArg(e.m_V.a, e.m_t.num, e.m_t.den)]]

\* r = (y-m).*sqrt(t)
r_stage(e, h) == [e EXCEPT !.m_r = [gen |-> Stamp(Hash(h), {e.m_t.gen})]]

\* be = Lu' \ (V*(r.*sqrt(t)))
be_stage(e, h) ==
  [e EXCEPT !.m_be =
     [gen |-> Stamp(Hash(h), {e.m_chol_utr.gen, e.m_V.gen, e.m_r.gen, e.m_t.gen})]]

\* L = solve_chol(Lu*Luu, I) - iKuu
L_stage(e, h) ==
  [e EXCEPT !.m_L =
     [gen |-> Stamp(Hash(h), {e.m_chol_utr.gen, e.m_chol_uu.gen, e.m_kuu.gen})]]

\* update_chol() that solves for V before the new factor Luu is stored
update_chol_V_before_Luu(e, h) ==
  L_stage(be_stage(r_stage(chol_utr_stage(t_stage(chol_uu_stage(V_stage(e, h), h), h), h), h), h), h)

update_chol(e, h) ==
  L_stage(be_stage(r_stage(chol_utr_stage(t_stage(V_stage(chol_uu_stage(e, h), h), h), h), h), h), h)

update_alpha(e, h) ==
  [e EXCEPT !.m_alpha =
     [gen |-> Stamp(Hash(h), {e.m_chol_uu.gen, e.m_chol_utr.gen, e.m_be.gen})]]

al_stage(e, h) ==
  [e EXCEPT !.m_al =
     [gen |-> Stamp(Hash(h), {e.m_V.gen, e.m_chol_utr.gen, e.m_be.gen, e.m_t.gen})]]

B_stage(e, h) ==
  [e EXCEPT !.m_B = [gen |-> Stamp(Hash(h), {e.m_chol_uu.gen, e.m_ktru.gen, e.m_kuu.gen})]]

w_stage(e, h) ==
  [e EXCEPT !.m_w = [gen |-> Stamp(Hash(h), {e.m_B.gen, e.m_al.gen})]]

Rvdd_stage(e, h) ==
  [e EXCEPT !.m_Rvdd = [gen |-> Stamp(Hash(h), {e.m_chol_utr.gen, e.m_V.gen, e.m_t.gen})]]

\* call counters of update() and update_deriv()
CountUpdate(e) == [e EXCEPT !.upd = Min(e.upd + 1, MaxCount)]

CountDeriv(e) == [e EXCEPT !.drv = Min(e.drv + 1, MaxCount)]

\* update_deriv() with the statement that computes al left out
update_deriv_keeps_al(e, h) ==
  CountDeriv(Rvdd_stage(w_stage(B_stage(e, h), h), h))

update_deriv(e, h) ==
  CountDeriv(Rvdd_stage(w_stage(B_stage(al_stage(e, h), h), h), h))

set_gradient_update(e, v) == [e EXCEPT !.m_gradient_update = v]

\* update() without the final update_parameter_hash()
update_forgets_hash(e, h) ==
  set_gradient_update(
    update_alpha(update_chol(Inference_update(CountUpdate(e), h), h), h),
    FALSE)

update(e, h) ==
  update_parameter_hash(
    set_gradient_update(
      update_alpha(update_chol(Inference_update(CountUpdate(e), h), h), h),
      FALSE),
    h)

\* Inference::compute_gradient()
Inference_compute_gradient(e, h) ==
  IF parameter_hash_changed(e, h) THEN update(e, h) ELSE e

\* the body of compute_gradient() after the base class call
gradient_if_dirty(e, h) ==
  IF ~e.m_gradient_update
  THEN update_parameter_hash(set_gradient_update(update_deriv(e, h), TRUE), h)
  ELSE e

\* compute_gradient() without the test of m_gradient_update
compute_gradient_unguarded(e, h) ==
  update_parameter_hash(
    set_gradient_update(update_deriv(Inference_compute_gradient(e, h), h), TRUE), h)

compute_gradient(e, h) == gradient_if_dirty(Inference_compute_gradient(e, h), h)

Result(kind, gen, arg) == [kind |-> kind, gen |-> gen, arg |-> arg]

Returns(e, r) == [self |-> e, result |-> r]

\* obtain_from_generic() without the test of the inference type
obtain_from_generic_unchecked(inference) ==
  IF inference = "null" THEN Result("null", 0, inference)
  ELSE Result("value", 0, inference)

obtain_from_generic(inference) ==
  IF inference = "null" THEN Result("null", 0, inference)
  ELSE IF inference # "fitc" THEN Result("error", 0, inference)
  ELSE Result("value", 0, inference)

\* if (parameter_hash_changed()) update();
update_if_changed(e, h) == IF parameter_hash_changed(e, h) THEN update(e, h) ELSE e

diagonal_vector(e, h) == Returns(e, Result("value", Stamp(Hash(h), {}), ""))

get_diagonal_vector(e, h) == diagonal_vector(update_if_changed(e, h), h)

nlml(e, h) ==
  Returns(e, Result("value",
                Stamp(Hash(h), {e.m_chol_utr.gen, e.m_t.gen, e.m_r.gen,
                                e.m_be.gen, e.m_ktrtr_diag.gen}), ""))

\* get_negative_log_marginal_likelihood() without the staleness test
get_negative_log_marginal_likelihood_unguarded(e, h) == nlml(e, h)

get_negative_log_marginal_likelihood(e, h) == nlml(update_if_changed(e, h), h)

posterior_mean(e, h) ==
  Returns([e EXCEPT !.m_mu = [gen |-> Stamp(Hash(h), {e.m_alpha.gen, e.m_ktru.gen})]],
          Result("value", Stamp(Hash(h), {e.m_alpha.gen, e.m_ktru.gen}), ""))

get_posterior_mean(e, h) == posterior_mean(compute_gradient(e, h), h)

posterior_covariance(e, h) ==
  Returns([e EXCEPT !.m_Sigma =
             [gen |-> Stamp(Hash(h), {e.m_V.gen, e.m_chol_utr.gen, e.m_ktrtr_diag.gen})]],
          Result("value",
            Stamp(Hash(h), {e.m_V.gen, e.m_chol_utr.gen, e.m_ktrtr_diag.gen}), ""))

get_posterior_covariance(e, h) == posterior_covariance(compute_gradient(e, h), h)

\* get_derivative_wrt_likelihood_model() without the require
get_derivative_wrt_likelihood_model_any(e, h, p) ==
  Returns(e, Result("value",
                Stamp(Hash(h), {e.m_t.gen, e.m_al.gen, e.m_Rvdd.gen}), p))

get_derivative_wrt_likelihood_model(e, h, p) ==
  IF p # "log_sigma" THEN Returns(e, Result("error", 0, p))
  ELSE Returns(e, Result("value",
                    Stamp(Hash(h), {e.m_t.gen, e.m_al.gen, e.m_Rvdd.gen}), p))

\* register_minimizer() that marks the gradient state dirty
register_minimizer_dirties(e, minimizer) ==
  Returns(set_gradient_update(e, FALSE), Result("warning", 0, ""))

register_minimizer(e, minimizer) == Returns(e, Result("warning", 0, ""))

(***************************************************************************)
(* State machine: one step per public call.                                *)
(***************************************************************************)
Ret(op, r) == [op |-> op, kind |-> r.kind, gen |-> r.gen, arg |-> r.arg]

Init ==
  /\ hp \in Hyper
  /\ self = NewEngine
  /\ ret = Ret("new", Result("none", 0, ""))
  /\ pc = "idle"
  /\ param = ""
  /\ acc_updates = 0

\* a setter changes some hyperparameter
SetHyperparameters ==
  /\ pc = "idle"
  /\ \E h \in Hyper \ {hp} : hp' = h
  /\ ret' = Ret("set_hyperparameters", Result("none", 0, ""))
  /\ acc_updates' = 0
  /\ UNCHANGED <<self, pc, param>>

Update ==
  /\ pc = "idle"
  /\ self' = update(Enter(self), hp)
  /\ ret' = Ret("update", Result("none", 0, ""))
  /\ UNCHANGED <<hp, pc, param, acc_updates>>

Accessor(op, out) ==
  /\ pc = "idle"
  /\ self' = out.self
  /\ ret' = Ret(op, out.result)
  /\ acc_updates' = Min(acc_updates + out.self.upd, MaxCount)
  /\ UNCHANGED <<hp, pc, param>>

GetDiagonalVector ==
  Accessor("get_diagonal_vector", get_diagonal_vector(Enter(self), hp))

GetNegativeLogMarginalLikelihood ==
  Accessor("get_negative_log_marginal_likelihood",
           get_negative_log_marginal_likelihood(Enter(self), hp))

GetPosteriorMean ==
  Accessor("get_posterior_mean", get_posterior_mean(Enter(self), hp))

GetPosteriorCovariance ==
  Accessor("get_posterior_covariance", get_posterior_covariance(Enter(self), hp))

\* Inference::get_negative_log_marginal_likelihood_derivatives(): the
\* gradient caller runs compute_gradient() and then asks for the derivative
GetDerivatives ==
  /\ pc = "idle"
  /\ \E p \in ParamNames : param' = p
  /\ self' = compute_gradient(Enter(self), hp)
  /\ ret' = Ret("compute_gradient", Result("none", 0, ""))
  /\ acc_updates' = Min(acc_updates + self'.upd, MaxCount)
  /\ pc' = "deriv"
  /\ UNCHANGED hp

GetDerivativeWrtLikelihoodModel ==
  /\ pc = "deriv"
  /\ LET out == get_derivative_wrt_likelihood_model(self, hp, param)
     IN /\ self' = out.self
        /\ ret' = Ret("get_derivative_wrt_likelihood_model", out.result)
  /\ pc' = "idle"
  /\ UNCHANGED <<hp, param, acc_updates>>

RegisterMinimizer ==
  /\ pc = "idle"
  /\ LET out == register_minimizer(Enter(self), "minimizer")
     IN /\ self' = out.self
        /\ ret' = Ret("register_minimizer", out.result)
  /\ UNCHANGED <<hp, pc, param, acc_updates>>

ObtainFromGeneric ==
  /\ pc = "idle"
  /\ \E inference \in Handles :
       ret' = Ret("obtain_from_generic", obtain_from_generic(inference))
  /\ UNCHANGED <<hp, self, pc, param, acc_updates>>

Next ==
  \/ SetHyperparameters
  \/ Update
  \/ GetDiagonalVector
  \/ GetNegativeLogMarginalLikelihood
  \/ GetPosteriorMean
  \/ GetPosteriorCovariance
  \/ GetDerivatives
  \/ GetDerivativeWrtLikelihoodModel
  \/ RegisterMinimizer
  \/ ObtainFromGeneric

Spec == Init /\ [][Next]_vars

(***************************************************************************)
(* Properties.                                                             *)
(***************************************************************************)
AccessorOps ==
  {"get_diagonal_vector", "get_negative_log_marginal_likelihood",
   "get_posterior_mean", "get_posterior_covariance"}

GradientOps == {"get_posterior_mean", "get_posterior_covariance", "compute_gradient"}

\* the calls that run code of the engine on the current hyperparameters
EngineOps == AccessorOps \cup {"update", "compute_gradient"}

InputGens(e) == {e.m_kuu.gen, e.m_ktru.gen, e.m_ktrtr_diag.gen}

PipelineGens(e) ==
  {e.m_chol_uu.gen, e.m_V.gen, e.m_t.gen, e.m_chol_utr.gen,
   e.m_r.gen, e.m_be.gen, e.m_L.gen, e.m_alpha.gen}

DerivGens(e) == {e.m_al.gen, e.m_B.gen, e.m_w.gen, e.m_Rvdd.gen}

\* everything the object caches, without the outputs m_mu and m_Sigma
Cached(e) == [Engine(e) EXCEPT !.m_mu = Unset, !.m_Sigma = Unset]

TClasses(t) == {TClass(t.num[i], t.den, t.a[i]) : i \in DOMAIN t.num}

\* C1: after an accessor call the value returned, the recorded hash and the
\* whole factorization state belong to the current hyperparameter hash (and
\* on the posterior mean/covariance paths so do al, B, w, Rvdd, with the
\* gradient flag clean); an accessor called with a stale hash runs update().
C1_AccessorsAreFresh ==
  /\ [](ret.op \in AccessorOps =>
          /\ ret.kind = "value"
          /\ ret.gen = Hash(hp)
          /\ self.m_hash = Hash(hp)
          /\ InputGens(self) \cup PipelineGens(self) = {Hash(hp)}
          /\ (ret.op \in {"get_posterior_mean", "get_posterior_covariance"} =>
                DerivGens(self) = {Hash(hp)} /\ self.m_gradient_update))
  /\ [][(ret'.op \in AccessorOps /\ self.m_hash # Hash(hp)) => self'.upd = 1]_vars

\* an accessor of the posterior recomputed everything after a hyperparameter
\* change that followed an earlier posterior mean
C1_Witness ==
  /\ ret.op = "get_posterior_covariance"
  /\ self.upd = 1 /\ self.drv = 1
  /\ self.m_mu.gen \notin {0, Hash(hp)}

\* C2: between two hyperparameter changes the accessors run update() at most
\* once, no call runs it twice, and a second
\* get_negative_log_marginal_likelihood() in a row runs neither update() nor
\* update_deriv().
C2_UpdateOncePerGeneration ==
  /\ [](acc_updates <= 1 /\ self.upd <= 1)
  /\ [][(ret.op = "get_negative_log_marginal_likelihood"
           /\ ret'.op = "get_negative_log_marginal_likelihood")
          => (self'.upd = 0 /\ self'.drv = 0)]_vars

\* the marginal likelihood was read without an update() after an accessor had
\* run the update() of this generation
C2_Witness ==
  /\ ret.op = "get_negative_log_marginal_likelihood"
  /\ self.upd = 0
  /\ acc_updates = 1

\* C3: a call that runs compute_gradient() with the flag clean and the hash
\* unchanged recomputes nothing and leaves all cached state as it was;
\* otherwise it runs update_deriv() exactly once, clears the flag and records
\* the current hash; a call in which update() ran and update_deriv() did not
\* leaves the flag dirty.
C3_ComputeGradientIdempotent ==
  [][/\ ret'.op \in GradientOps =>
          IF self.m_gradient_update /\ self.m_hash = Hash(hp)
          THEN self'.upd = 0 /\ self'.drv = 0 /\ Cached(self') = Cached(self)
          ELSE self'.drv = 1 /\ self'.m_gradient_update /\ self'.m_hash = Hash(hp)
     /\ (self'.upd >= 1 /\ self'.drv = 0) => ~self'.m_gradient_update]_vars

\* compute_gradient() was run on a clean state and did nothing
C3_Witness ==
  /\ ret.op = "get_posterior_mean"
  /\ self.upd = 0 /\ self.drv = 0
  /\ self.m_gradient_update

\* C4: whenever get_derivative_wrt_likelihood_model is about to run with
\* log_sigma, the t, al and Rvdd it reads belong to the current hash, and so
\* does the value it returns.
C4_DerivativeReadsFreshState ==
  /\ (pc = "deriv" /\ param = "log_sigma") =>
        {self.m_t.gen, self.m_al.gen, self.m_Rvdd.gen} = {Hash(hp)}
  /\ (ret.op = "get_derivative_wrt_likelihood_model" /\ ret.kind = "value") =>
        ret.gen = Hash(hp)

\* the derivative wrt log_sigma was returned in a call that had to run both
\* update() and update_deriv()
C4_Witness ==
  /\ ret.op = "get_derivative_wrt_likelihood_model"
  /\ ret.arg = "log_sigma" /\ ret.kind = "value"
  /\ self.upd = 1 /\ self.drv = 1

\* C5: update() never stores a t with an entry that is not strictly positive
\* and finite (stated for the updates whose factor Luu exists).
C5_TStrictlyPositive ==
  (self.m_t.gen # 0 /\ self.m_chol_uu.ok) => TClasses(self.m_t) = {"pos"}

\* C6: a call in which update() factorized a matrix that is not positive
\* definite ends in an error, and no accessor returns a value while a failed
\* factor is cached.
C6_CholeskyFailureIsAnError ==
  /\ (ret.op \in EngineOps /\ self.upd >= 1
        /\ (~self.m_chol_uu.ok \/ ~self.m_chol_utr.ok)) => ret.kind = "error"
  /\ (ret.op \in AccessorOps /\ ret.kind = "value") =>
        (self.m_chol_uu.ok /\ self.m_chol_utr.ok)

\* C7: get_derivative_wrt_likelihood_model called with a name other than
\* log_sigma ends in an error that names the parameter, returns no value and
\* leaves the object as it was.
C7_UnsupportedParameter ==
  [][(pc = "deriv" /\ param # "log_sigma") =>
       /\ ret'.op = "get_derivative_wrt_likelihood_model"
       /\ ret'.kind = "error"
       /\ ret'.arg = param
       /\ ret'.gen = 0
       /\ self' = self]_vars

\* the derivative wrt wrong_name was refused
C7_Witness ==
  /\ ret.op = "get_derivative_wrt_likelihood_model"
  /\ ret.kind = "error"
  /\ ret.arg = "wrong_name"

\* C8 as stated: obtain_from_generic given a null handle ends in an error.
C8_NullHandleIsAnError ==
  (ret.op = "obtain_from_generic" /\ ret.arg = "null") => ret.kind = "error"

\* C8 amended: obtain_from_generic given a null handle returns a null handle
\* without an error; it ends in an error exactly when the handle is not null
\* and its inference type is not FITC regression.
C8_NullHandleReturnsNull ==
  ret.op = "obtain_from_generic" =>
    /\ ret.arg = "null" => ret.kind = "null"
    /\ ret.arg = "other" => ret.kind = "error"
    /\ ret.arg = "fitc" => ret.kind = "value"

\* obtain_from_generic was given a null handle
C8_Witness ==
  /\ ret.op = "obtain_from_generic"
  /\ ret.arg = "null"
  /\ ret.kind = "null"

\* C9: register_minimizer only warns: the cached quantities, the gradient
\* flag, the recorded hash and the hyperparameters are unchanged, so the next
\* call meets the same staleness tests as without it.
C9_RegisterMinimizerChangesNothing ==
  [][ret'.op = "register_minimizer" =>
       /\ ret'.kind = "warning"
       /\ Engine(self') = Engine(self)
       /\ hp' = hp
       /\ acc_updates' = acc_updates
       /\ parameter_hash_changed(self', hp') = parameter_hash_changed(self, hp)]_vars

\* a minimizer was registered on an engine whose gradient state is clean
C9_Witness ==
  /\ ret.op = "register_minimizer"
  /\ self.m_hash # 0
  /\ self.m_gradient_update

\* C10: after a call in which update() ran, Luu, V, t, Lu, r, be, L and alpha
\* all belong to the current hash (each was computed from inputs recomputed
\* in that call) and the recorded hash is the current one; when update()
\* itself returns the gradient flag is dirty.
C10_UpdateRecomputesPipeline ==
  /\ (ret.op \in EngineOps /\ self.upd >= 1) =>
        /\ PipelineGens(self) = {Hash(hp)}
        /\ self.m_hash = Hash(hp)
  /\ ret.op = "update" =>
        /\ self.upd = 1
        /\ ~self.m_gradient_update

\* update() returned on an engine that holds derivative quantities of an
\* earlier generation
C10_Witness ==
  /\ ret.op = "update"
  /\ self.m_al.gen \notin {0, Hash(hp)}

====
